---- MODULE Spec2Model ----
(***************************************************************************)
(* A model of lime_image.py: LimeImageExplainer.data_labels (perturbation  *)
(* sampling, occlusion rendering, batched classification),                  *)
(* LimeImageExplainer.explain_instance (distances, per-label fitting) and   *)
(* ImageExplanation.get_image_and_mask.                                     *)
(*                                                                         *)
(* Indices are the code's: rows, columns, channels and labels count from 0. *)
(* Python lists (imgs, labels, the explanation lists) are sequences.        *)
(* Tensor values are fixed-point, in thousandths.                           *)
(***************************************************************************)
EXTENDS Integers, Sequences, FiniteSets, TLC

\* ---------------------------------------------------------------- bounds
NumPixels == 2
MaxSegId == 1
MaxSamples == 3
MaxBatch == 2
MaxExpLen == 2
MaxLabel == 2

\* ------------------------------------------------------------ value sets
Pixels == 1..NumPixels
Channels == 0..2
SegIds == 0..MaxSegId
Classes == 0..MaxLabel

Colour(r, g, b) == (0 :> r) @@ (1 :> g) @@ (2 :> b)

\* the fudged colour of explain_instance (hide_color None, uint8 image)
FudgeColour == Colour((255 * 485) \div 1000, (255 * 456) \div 1000, (255 * 406) \div 1000)
\* the normalised tensor pytorch_img, in thousandths: every pixel its own
\* colour
TensorA == [p \in Pixels |-> Colour(500 * p - 1000, -500, 2000 - 500 * p)]

RECURSIVE SumOver(_, _)
SumOver(S, f) ==
    IF S = {} THEN 0
    ELSE LET x == CHOOSE y \in S : TRUE IN f[x] + SumOver(S \ {x}, f)

\* ------------------------------------------------- external collaborators
\* classifier_fn on one image: one score per class, a deterministic function
\* of the pixels
Classifier(img) ==
    [k \in Classes |-> SumOver(Pixels, [p \in Pixels |-> p * img[p][k % 3]])]

\* classifier_fn on a batch: one output row per image, in input order
ClassifierBatch(batch) == [j \in 1..Len(batch) |-> Classifier(batch[j])]

\* inpaint_model.generate_background on one (image, keep mask) pair: a
\* deterministic function of the mask
InpaintModel(timg, keep) ==
    [p \in Pixels |-> [c \in Channels |->
        500 * SumOver(Pixels, keep) - 1000 + 100 * c]]

\* ------------------------------------------------------------ data_labels
\* n_features = np.unique(segments).shape[0]
NFeatures(segs) == Cardinality({segs[p] : p \in Pixels})

\* row 0 left as drawn
ForceRow0_Skipped(d, nf) == d

\* data[0, :] = 1
ForceRow0(d, nf) == [d EXCEPT ![0] = [z \in 0..(nf - 1) |-> 1]]

\* the kept columns taken for the zeroed ones
Zeros_Inverted(row) == {z \in DOMAIN row : row[z] = 1}

\* zeros = np.where(row == 0)[0]
Zeros(row) == {z \in DOMAIN row : row[z] = 0}

\* mask[segments == z] = True for z in zeros
OccludeMask(row, segs) ==
    [p \in Pixels |-> \E z \in Zeros(row) : segs[p] = z]

\* temp[mask] = fudged_image[mask]
ConstantFill(img, fudged, mask) ==
    [p \in Pixels |-> IF mask[p] THEN fudged[p] ELSE img[p]]

\* 1 - mask, as a float keep mask
KeepMask(mask) == [p \in Pixels |-> IF mask[p] THEN 0 ELSE 1]

\* pytorch_img * temp_mask + inpaint_img * (1 - temp_mask)
Composite(timg, keep, inp) ==
    [p \in Pixels |-> [c \in Channels |->
        timg[p][c] * keep[p] + inp[p][c] * (1 - keep[p])]]

StdMilli == Colour(229, 224, 225)
MeanMilli == Colour(485, 456, 406)

\* unnormalize: img * stds[i] + means[i] per channel
Unnormalize(timg) ==
    [p \in Pixels |-> [c \in Channels |->
        (timg[p][c] * StdMilli[c]) \div 1000 + MeanMilli[c]]]

\* np.uint8(255 * x)
ToUint8(uimg) ==
    [p \in Pixels |-> [c \in Channels |-> ((255 * uimg[p][c]) \div 1000) % 256]]

\* one member of the inpainted batch handed to the classifier
InpaintRender(timg, keep) ==
    ToUint8(Unnormalize(Composite(timg, keep, InpaintModel(timg, keep))))

VARIABLES
    image, fudged_image, pytorch_img, segments,
    num_samples, batch_size, f_type,
    data, row_i, imgs, temp_mask, labels, calls,
    run, prev_labels, ref_row, distances,
    top_labels, top, idx, intercept, local_exp, score, local_pred,
    attr_top_labels, fitted, out,
    pc

\* the explanation side: explain_instance's fitting loop and the
\* ImageExplanation it fills
expvars == <<top_labels, top, idx, intercept, local_exp, score, local_pred,
             attr_top_labels, fitted, out>>

\* the data_labels side
dlvars == <<fudged_image, pytorch_img, num_samples, batch_size, f_type,
            data, row_i, imgs, temp_mask, calls,
            run, prev_labels, ref_row, distances>>

vars == <<image, segments, labels, dlvars, expvars, pc>>

inputs == <<image, fudged_image, pytorch_img, segments, num_samples, f_type,
            expvars>>

None == "None"
NoCall == [called |-> FALSE]

\* the explanation side before explain_instance reaches line 205
ExpIdle ==
    /\ top_labels = 0
    /\ top = <<>>
    /\ idx = 0
    /\ intercept = <<>>
    /\ local_exp = <<>>
    /\ score = None
    /\ local_pred = None
    /\ attr_top_labels = None
    /\ fitted = <<>>
    /\ out = NoCall

InitDL ==
    /\ pytorch_img = TensorA
    /\ image = ToUint8(Unnormalize(pytorch_img))
    /\ fudged_image = [p \in Pixels |-> FudgeColour]
    /\ f_type \in {"LIME", "LIMEG"}
    /\ segments \in [Pixels -> SegIds]
    /\ num_samples \in 1..MaxSamples
    /\ batch_size \in 1..MaxBatch
    /\ data = <<>>
    /\ row_i = 0
    /\ imgs = <<>>
    /\ temp_mask = <<>>
    /\ labels = <<>>
    /\ calls = <<>>
    /\ run = 1
    /\ prev_labels = <<>>
    /\ ref_row = <<>>
    /\ distances = <<>>
    /\ ExpIdle
    /\ pc = "start"

\* lines 254-262: draw the perturbation matrix, force row 0
SampleData ==
    /\ pc = "start"
    /\ LET nf == NFeatures(segments) IN
       \E d \in [0..(num_samples - 1) -> [0..(nf - 1) -> {0, 1}]] :
          data' = ForceRow0(d, nf)
    /\ row_i' = 0
    /\ imgs' = <<>>
    /\ temp_mask' = <<>>
    /\ labels' = <<>>
    /\ calls' = <<>>
    /\ pc' = "loop"
    /\ UNCHANGED <<inputs, batch_size, run, prev_labels, ref_row, distances>>

\* the record of one classifier_fn invocation
Call(kind, batch) == [kind |-> kind, imgs |-> batch, out |-> ClassifierBatch(batch)]

\* lines 263-291: render one row, (constant fill) diagnostic call, append
RenderRow ==
    /\ pc = "loop"
    /\ row_i < num_samples
    /\ LET row == data[row_i]
           mask == OccludeMask(row, segments)
           temp == IF f_type = "LIME"
                   THEN ConstantFill(image, fudged_image, mask)
                   ELSE image
       IN /\ temp_mask' = IF f_type = "LIMEG"
                          THEN Append(temp_mask, KeepMask(mask))
                          ELSE temp_mask
          /\ calls' = IF f_type = "LIME"
                      THEN Append(calls, Call("diag", <<temp>>))
                      ELSE calls
          /\ imgs' = Append(imgs, temp)
    /\ pc' = "batch"
    /\ UNCHANGED <<inputs, batch_size, data, row_i, labels,
                   run, prev_labels, ref_row, distances>>

\* line 292 false: the batch is not full yet
NextRow ==
    /\ pc = "batch"
    /\ Len(imgs) # batch_size
    /\ row_i' = row_i + 1
    /\ pc' = "loop"
    /\ UNCHANGED <<inputs, batch_size, data, imgs, temp_mask, labels, calls,
                   run, prev_labels, ref_row, distances>>

\* lines 313-316: a full batch in constant-fill mode
FlushBatchLIME ==
    /\ pc = "batch"
    /\ Len(imgs) = batch_size
    /\ f_type # "LIMEG"
    /\ LET c == Call("batch", imgs) IN
          /\ calls' = Append(calls, c)
          /\ labels' = labels \o c.out
    /\ imgs' = <<>>
    /\ row_i' = row_i + 1
    /\ pc' = "loop"
    /\ UNCHANGED <<inputs, batch_size, data, temp_mask,
                   run, prev_labels, ref_row, distances>>

\* one diagnostic call on the whole batch
DiagCallsLIMEG_WholeBatch(inpaint_img) == <<Call("diag", inpaint_img)>>

\* lines 299-307: one single-image classifier call per batch member
DiagCallsLIMEG(inpaint_img) ==
    [ii \in 1..batch_size |-> Call("diag", <<inpaint_img[ii]>>)]

\* lines 293-312: a full batch in inpainting mode
FlushBatchLIMEG ==
    /\ pc = "batch"
    /\ Len(imgs) = batch_size
    /\ f_type = "LIMEG"
    /\ LET inpaint_img == [j \in 1..Len(temp_mask) |->
                              InpaintRender(pytorch_img, temp_mask[j])]
           c == Call("batch", inpaint_img)
       IN /\ calls' = (calls \o <<c>>) \o DiagCallsLIMEG(inpaint_img)
          /\ labels' = labels \o c.out
    /\ temp_mask' = <<>>
    /\ imgs' = <<>>
    /\ row_i' = row_i + 1
    /\ pc' = "loop"
    /\ UNCHANGED <<inputs, batch_size, data,
                   run, prev_labels, ref_row, distances>>

\* lines 317-319: the final partial batch
FinalBatch ==
    /\ pc = "loop"
    /\ row_i = num_samples
    /\ Len(imgs) > 0
    /\ LET c == Call("batch", imgs) IN
          /\ calls' = Append(calls, c)
          /\ labels' = labels \o c.out
    /\ pc' = "done"
    /\ UNCHANGED <<inputs, batch_size, data, row_i, imgs, temp_mask,
                   run, prev_labels, ref_row, distances>>

\* line 317 false, line 320: nothing left to classify
ReturnNoPartial ==
    /\ pc = "loop"
    /\ row_i = num_samples
    /\ Len(imgs) = 0
    /\ pc' = "done"
    /\ UNCHANGED <<inputs, batch_size, data, row_i, imgs, temp_mask, labels,
                   calls, run, prev_labels, ref_row, distances>>

\* data_labels called again with the same arguments and RNG state (hence the
\* same perturbation matrix) but unbatched, batch_size 1
Rerun ==
    /\ pc = "done"
    /\ run = 1
    /\ batch_size # 1
    /\ batch_size' = 1
    /\ prev_labels' = labels
    /\ run' = 2
    /\ row_i' = 0
    /\ imgs' = <<>>
    /\ temp_mask' = <<>>
    /\ labels' = <<>>
    /\ calls' = <<>>
    /\ pc' = "loop"
    /\ UNCHANGED <<inputs, data, ref_row, distances>>

RECURSIVE Dot(_, _, _)
Dot(a, b, n) ==
    IF n = 0 THEN 0 ELSE a[n - 1] * b[n - 1] + Dot(a, b, n - 1)

\* the cosine distance of a to b is 1 - dot / sqrt(na * nb): kept as the
\* three integers that determine it
Cosine(a, b) ==
    LET n == Cardinality(DOMAIN a)
    IN [dot |-> Dot(a, b, n), na |-> Dot(a, a, n), nb |-> Dot(b, b, n)]

\* explain_instance lines 199-203: distances of every row to data[0]
ComputeDistances ==
    /\ pc = "done"
    /\ ref_row' = data[0]
    /\ distances' = [i \in DOMAIN data |-> Cosine(data[i], data[0])]
    /\ pc' = "weighted"
    /\ UNCHANGED <<inputs, batch_size, data, row_i, imgs, temp_mask, labels,
                   calls, run, prev_labels>>

NextDL ==
    \/ SampleData
    \/ RenderRow
    \/ NextRow
    \/ FlushBatchLIME
    \/ FlushBatchLIMEG
    \/ FinalBatch
    \/ ReturnNoPartial
    \/ Rerun
    \/ ComputeDistances

SpecDL == InitDL /\ [][NextDL]_vars

\* ------------------------------------------------- data_labels: properties
Returned == pc \in {"done", "weighted"}

AllOnes(row) == \A z \in DOMAIN row : row[z] = 1

RECURSIVE BatchImgs(_)
\* the images of the batch calls of a call log, in call order
BatchImgs(cs) ==
    IF cs = <<>> THEN <<>>
    ELSE (IF Head(cs).kind = "batch" THEN Head(cs).imgs ELSE <<>>)
         \o BatchImgs(Tail(cs))

RECURSIVE BatchOuts(_)
\* the outputs of the batch calls of a call log, in call order
BatchOuts(cs) ==
    IF cs = <<>> THEN <<>>
    ELSE (IF Head(cs).kind = "batch" THEN Head(cs).out ELSE <<>>)
         \o BatchOuts(Tail(cs))

OfKind(k) == SelectSeq(calls, LAMBDA c : c.kind = k)

CeilDiv(a, b) == (a + b - 1) \div b

\* the rendered image the prediction of a perturbation row is meant to be of
Rendered(row) ==
    IF f_type = "LIME"
    THEN ConstantFill(image, fudged_image, OccludeMask(row, segments))
    ELSE InpaintRender(pytorch_img, KeepMask(OccludeMask(row, segments)))

\* C1: once data_labels has returned, the prediction matrix has one row per
\* perturbation row and row i is the classifier's output for the image
\* rendered from perturbation row i, in either occlusion mode and also for
\* the rows of the final partial batch.
C1_RowCorrespondence ==
    Returned =>
        /\ Len(labels) = num_samples
        /\ \A i \in 0..(num_samples - 1) :
              labels[i + 1] = Classifier(Rendered(data[i]))

\* C2: for the same perturbation matrix, image, classifier and inpainting
\* model, a second data_labels run with batch_size 1 instead of the first
\* run's batch_size returns num_samples rows and the very same prediction
\* matrix.
C2_BatchInvariance ==
    (Returned /\ run = 2) =>
        /\ Len(labels) = num_samples
        /\ labels = prev_labels

\* C3: the perturbation matrix is num_samples x n_features over {0,1}, its
\* row 0 is all ones, and explain_instance measures the distances against
\* that same row.
C3_Row0AllOnes ==
    /\ pc # "start" =>
          /\ DOMAIN data = 0..(num_samples - 1)
          /\ \A i \in DOMAIN data :
                /\ DOMAIN data[i] = 0..(NFeatures(segments) - 1)
                /\ \A z \in DOMAIN data[i] : data[i][z] \in {0, 1}
          /\ AllOnes(data[0])
    /\ pc = "weighted" =>
          /\ ref_row = data[0]
          /\ AllOnes(ref_row)
          /\ \A i \in DOMAIN data :
                distances[i] = Cosine(data[i], [z \in DOMAIN data[0] |-> 1])

C3_Witness ==
    /\ pc = "weighted"
    /\ num_samples = MaxSamples
    /\ NFeatures(segments) > 1
    /\ \E i \in DOMAIN data : \E z \in DOMAIN data[i] : data[i][z] = 0

Bijections(S, T) ==
    {f \in [S -> T] : \A t \in T : \E x \in S : f[x] = t}

\* C5: in constant-fill mode the n_features columns stand one-to-one for the
\* distinct superpixel IDs of the segmentation map, whatever their values,
\* and a rendered pixel is the fudged pixel exactly when the column of its
\* superpixel is 0 in the row, the original pixel otherwise.
C5_ColumnPerSuperpixel ==
    f_type = "LIME" =>
        LET cls == BatchImgs(calls)
            ids == {segments[p] : p \in Pixels}
        IN \E col \in Bijections(ids, 0..(NFeatures(segments) - 1)) :
              \A j \in 1..Len(cls) : \A p \in Pixels :
                  cls[j][p] = IF data[j - 1][col[segments[p]]] = 0
                              THEN fudged_image[p]
                              ELSE image[p]

\* C6 as stated: a constant-fill run invokes the classifier
\* ceil(num_samples / batch_size) times in all, diagnostic calls occur only
\* in inpainting mode, and no diagnostic output reaches the predictions.
C6_OnlyBatchCallsInConstantFill ==
    /\ (Returned /\ f_type = "LIME") =>
          Len(calls) = CeilDiv(num_samples, batch_size)
    /\ \A k \in 1..Len(calls) : calls[k].kind = "diag" => f_type = "LIMEG"
    /\ labels = BatchOuts(calls)

\* C6 amended: in either mode the predictions come from one classifier call
\* per full batch plus one for a final partial batch, in generation order;
\* single-image diagnostic calls occur in both modes (constant fill: one per
\* sample; inpainting: one per member of every full batch) and their outputs
\* never reach the prediction matrix.
C6_BatchAndDiagnosticCalls ==
    /\ labels = BatchOuts(calls)
    /\ \A k \in 1..Len(calls) :
          calls[k].kind = "diag" => Len(calls[k].imgs) = 1
    /\ Returned =>
          LET bs == OfKind("batch") IN
          /\ Len(bs) = CeilDiv(num_samples, batch_size)
          /\ \A k \in 1..Len(bs) :
                Len(bs[k].imgs) = IF k * batch_size <= num_samples
                                  THEN batch_size
                                  ELSE num_samples - (k - 1) * batch_size
          /\ f_type = "LIME" =>
                /\ Len(OfKind("diag")) = num_samples
                /\ \A j \in 1..num_samples :
                      BatchImgs(calls)[j] = Rendered(data[j - 1])
          /\ f_type = "LIMEG" =>
                Len(OfKind("diag")) = batch_size * (num_samples \div batch_size)

C6_Witness ==
    /\ pc = "done"
    /\ num_samples = MaxSamples
    /\ batch_size = 2
    /\ Len(OfKind("diag")) > 0
    /\ Len(OfKind("batch")) = 2

\* ------------------------------------------- explain_instance: the fitting
Weights == {-2, -1, 0, 1, 2}
MinWeights == {0, 2}

\* an explanation list over nf features: (feature, weight) pairs, the
\* features columns of the perturbation matrix, none twice
ExpListsOfLen(n, nf) ==
    {e \in [1..n -> (0..(nf - 1)) \X Weights] :
        \A i, j \in 1..n : i # j => e[i][1] # e[j][1]}

ExpLists(nf) == UNION {ExpListsOfLen(n, nf) : n \in 0..MaxExpLen}

\* what lime_base.explain_instance_with_data may return for one label
FitStats ==
    {[intercept |-> 0, score |-> 5, pred |-> 7],
     [intercept |-> 1, score |-> 6, pred |-> 8]}

FitExps == {<<>>, <<<<1, -1>>, <<0, 2>>>>}

FitResults ==
    {[intercept |-> st.intercept, exp |-> e, score |-> st.score,
      pred |-> st.pred] : st \in FitStats, e \in FitExps}

Range(q) == {q[i] : i \in DOMAIN q}

\* the explicit labels argument: distinct labels
LabelTuples ==
    {t \in UNION {[1..n -> Classes] : n \in 1..2} :
        \A i, j \in DOMAIN t : i # j => t[i] # t[j]}

\* d[k] = v on a Python dict
DictSet(d, k, v) ==
    [x \in DOMAIN d \cup {k} |-> IF x = k THEN v ELSE d[x]]

\* seq[:n]
PyHead(q, n) ==
    LET m == IF n >= 0 THEN (IF n < Len(q) THEN n ELSE Len(q))
             ELSE (IF Len(q) + n > 0 THEN Len(q) + n ELSE 0)
    IN SubSeq(q, 1, m)

\* seq[-n:] for n > 0
PyTail(q, n) ==
    SubSeq(q, (IF Len(q) - n > 0 THEN Len(q) - n ELSE 0) + 1, Len(q))

Reverse(q) == [i \in 1..Len(q) |-> q[Len(q) + 1 - i]]

\* np.argsort(row): the orders of the indices that sort the row ascending;
\* the order of equal values is the sort's choice
ArgSorts(row) ==
    LET n == Cardinality(DOMAIN row) IN
    {q \in [1..n -> DOMAIN row] :
        /\ \A i, j \in 1..n : i # j => q[i] # q[j]
        /\ \A i \in 1..(n - 1) : row[q[i]] <= row[q[i + 1]]}

\* the state explain_instance is in when data_labels has returned (line 196):
\* top is the labels argument, labels the prediction matrix
InitExp ==
    /\ pytorch_img = TensorA
    /\ image = ToUint8(Unnormalize(pytorch_img))
    /\ fudged_image = [p \in Pixels |-> FudgeColour]
    /\ f_type = "LIME"
    /\ segments = [p \in Pixels |-> p - 1]
    /\ num_samples = 1
    /\ batch_size = 1
    /\ data = [i \in {0} |-> [z \in 0..(NFeatures(segments) - 1) |-> 1]]
    /\ row_i = 1
    /\ imgs = <<>>
    /\ temp_mask = <<>>
    /\ calls = <<>>
    /\ run = 1
    /\ prev_labels = <<>>
    /\ ref_row = <<>>
    /\ distances = <<>>
    /\ \/ /\ top_labels = 0
          /\ top \in LabelTuples
          /\ labels = <<[k \in Classes |-> 1]>>
       \/ /\ top_labels \in 1..2
          /\ top = <<1>>
          /\ labels \in {<<r>> : r \in [Classes -> {1, 2}]}
    /\ idx = 0
    /\ intercept = <<>>
    /\ local_exp = <<>>
    /\ score = None
    /\ local_pred = None
    /\ attr_top_labels = None
    /\ fitted = <<>>
    /\ out = NoCall
    /\ pc = "weighted"

\* lines 205-209: the empty ImageExplanation and the labels to fit
ExplainBegin ==
    /\ pc = "weighted"
    /\ intercept' = <<>>
    /\ local_exp' = <<>>
    /\ local_pred' = None
    /\ IF top_labels # 0
       THEN \E q \in ArgSorts(labels[1]) :
               /\ top' = PyTail(q, top_labels)
               /\ attr_top_labels' = Reverse(PyTail(q, top_labels))
       ELSE UNCHANGED <<top, attr_top_labels>>
    /\ idx' = 1
    /\ pc' = "fit"
    /\ UNCHANGED <<image, segments, labels, dlvars, top_labels, score,
                   fitted, out>>

\* the fit recorded under the position in the loop
FitLabel_KeyedByIndex ==
    /\ pc = "fit"
    /\ idx <= Len(top)
    /\ \E r \in FitResults :
          /\ intercept' = DictSet(intercept, idx - 1, r.intercept)
          /\ local_exp' = DictSet(local_exp, idx - 1, r.exp)
          /\ score' = r.score
          /\ local_pred' = r.pred
          /\ fitted' = DictSet(fitted, top[idx], r)
    /\ idx' = idx + 1
    /\ UNCHANGED <<image, segments, labels, dlvars, top_labels, top,
                   attr_top_labels, out, pc>>

\* lines 210-216: one iteration of the loop over the labels to fit
FitLabel ==
    /\ pc = "fit"
    /\ idx <= Len(top)
    /\ LET label == top[idx] IN
       \E r \in FitResults :
          /\ intercept' = DictSet(intercept, label, r.intercept)
          /\ local_exp' = DictSet(local_exp, label, r.exp)
          /\ score' = r.score
          /\ local_pred' = r.pred
          /\ fitted' = DictSet(fitted, label, r)
    /\ idx' = idx + 1
    /\ UNCHANGED <<image, segments, labels, dlvars, top_labels, top,
                   attr_top_labels, out, pc>>

\* line 217
ExplainReturn ==
    /\ pc = "fit"
    /\ idx > Len(top)
    /\ pc' = "returned"
    /\ UNCHANGED <<image, segments, labels, dlvars, expvars>>

\* ------------------------------------------------------ get_image_and_mask
NumFeaturesArgs == (-1)..MaxExpLen

Abs(w) == IF w < 0 THEN -w ELSE w

RECURSIVE MaxOfSet(_)
MaxOfSet(S) ==
    LET x == CHOOSE y \in S : TRUE
    IN IF S = {x} THEN x
       ELSE LET m == MaxOfSet(S \ {x}) IN IF x > m THEN x ELSE m

\* np.max(image)
ImageMax(img) == MaxOfSet({img[p][c] : p \in Pixels, c \in Channels})

\* np.zeros(segments.shape, segments.dtype)
ZeroMask == [p \in Pixels |-> 0]

\* np.zeros(self.image.shape) if hide_rest else self.image.copy()
BaseImage(img, hide_rest) ==
    IF hide_rest THEN [p \in Pixels |-> Colour(0, 0, 0)] ELSE img

\* the filter of line 68 with a non-strict threshold
Selected_NonStrict(x, min_weight) == x[2] > 0 /\ x[2] >= min_weight

\* line 68: x[1] > 0 and x[1] > min_weight
Selected(x, min_weight) == x[2] > 0 /\ x[2] > min_weight

\* lines 67-68: the features of the selected entries, cut to num_features
PositiveFeatures(exp, num_features, min_weight) ==
    LET sel == SelectSeq(exp, LAMBDA x : Selected(x, min_weight))
    IN PyHead([i \in 1..Len(sel) |-> sel[i][1]], num_features)

\* lines 70-71 for one feature
PaintPositive(st, img, segs, f) ==
    [temp |-> [p \in Pixels |-> IF segs[p] = f THEN img[p] ELSE st.temp[p]],
     mask |-> [p \in Pixels |-> IF segs[p] = f THEN 1 ELSE st.mask[p]]]

RECURSIVE PositiveLoop(_, _, _, _)
\* lines 69-71
PositiveLoop(st, img, segs, fs) ==
    IF fs = <<>> THEN st
    ELSE PositiveLoop(PaintPositive(st, img, segs, Head(fs)), img, segs, Tail(fs))

\* the channels of line 77 the other way round
SaturatedChannel_RedForPositive(w) == IF w < 0 THEN 1 ELSE 0

\* line 77: c = 0 if w < 0 else 1
SaturatedChannel(w) == IF w < 0 THEN 0 ELSE 1

\* line 78: 1 if w < 0 else 2
MaskValue(w) == IF w < 0 THEN 1 ELSE 2

\* lines 75-80 for one entry
PaintSigned(st, img, segs, x, min_weight) ==
    LET f == x[1]
        w == x[2]
        c == SaturatedChannel(w)
    IN IF Abs(w) < min_weight THEN st
       ELSE [temp |-> [p \in Pixels |->
                         IF segs[p] = f
                         THEN [img[p] EXCEPT ![c] = ImageMax(img)]
                         ELSE st.temp[p]],
             mask |-> [p \in Pixels |->
                         IF segs[p] = f THEN MaskValue(w) ELSE st.mask[p]]]

RECURSIVE SignedLoop(_, _, _, _, _)
\* lines 74-80
SignedLoop(st, img, segs, es, min_weight) ==
    IF es = <<>> THEN st
    ELSE SignedLoop(PaintSigned(st, img, segs, Head(es), min_weight),
                    img, segs, Tail(es), min_weight)

\* lines 36-85; out is what the caller gets, with the arguments of the call
GetImageAndMask ==
    /\ pc = "returned"
    /\ out = NoCall
    /\ \E label \in Classes, positive_only \in BOOLEAN, hide_rest \in BOOLEAN,
          num_features \in NumFeaturesArgs, min_weight \in MinWeights :
          LET args == [called |-> TRUE, label |-> label,
                       positive_only |-> positive_only,
                       hide_rest |-> hide_rest,
                       num_features |-> num_features,
                       min_weight |-> min_weight]
          IN IF label \notin DOMAIN local_exp
             THEN out' = args @@ [raised |-> "KeyError", temp |-> None,
                                  mask |-> None]
             ELSE LET exp == local_exp[label]
                      st0 == [temp |-> BaseImage(image, hide_rest),
                              mask |-> ZeroMask]
                      st == IF positive_only
                            THEN PositiveLoop(st0, image, segments,
                                    PositiveFeatures(exp, num_features,
                                                     min_weight))
                            ELSE SignedLoop(st0, image, segments,
                                    PyHead(exp, num_features), min_weight)
                  IN out' = args @@ [raised |-> None, temp |-> st.temp,
                                     mask |-> st.mask]
    /\ UNCHANGED <<image, segments, labels, dlvars, top_labels, top, idx,
                   intercept, local_exp, score, local_pred, attr_top_labels,
                   fitted, pc>>

\* lines 72 and 85, line 57: the caller has the result (or the error) and
\* is free to call again
TakeResult ==
    /\ pc = "returned"
    /\ out # NoCall
    /\ out' = NoCall
    /\ UNCHANGED <<image, segments, labels, dlvars, top_labels, top, idx,
                   intercept, local_exp, score, local_pred, attr_top_labels,
                   fitted, pc>>

NextExp ==
    \/ ExplainBegin
    \/ FitLabel
    \/ ExplainReturn
    \/ GetImageAndMask
    \/ TakeResult

SpecExp == InitExp /\ [][NextExp]_vars

\* an explanation with one fitted label, as explain_instance returns it
InitMask ==
    /\ pytorch_img = TensorA
    /\ image = ToUint8(Unnormalize(pytorch_img))
    /\ fudged_image = [p \in Pixels |-> FudgeColour]
    /\ f_type = "LIME"
    /\ segments \in [Pixels -> SegIds]
    /\ num_samples = 1
    /\ batch_size = 1
    /\ data = [i \in {0} |-> [z \in 0..(NFeatures(segments) - 1) |-> 1]]
    /\ row_i = 1
    /\ imgs = <<>>
    /\ temp_mask = <<>>
    /\ labels = <<[k \in Classes |-> 1]>>
    /\ calls = <<>>
    /\ run = 1
    /\ prev_labels = <<>>
    /\ ref_row = <<>>
    /\ distances = <<>>
    /\ top_labels = 0
    /\ top = <<1>>
    /\ idx = 2
    /\ \E e \in ExpLists(NFeatures(segments)) :
          /\ local_exp = DictSet(<<>>, 1, e)
          /\ fitted = DictSet(<<>>, 1,
                              [intercept |-> 0, exp |-> e, score |-> 5, pred |-> 7])
    /\ intercept = DictSet(<<>>, 1, 0)
    /\ score = 5
    /\ local_pred = 7
    /\ attr_top_labels = None
    /\ out = NoCall
    /\ pc = "returned"

NextMask ==
    \/ GetImageAndMask
    \/ TakeResult

SpecMask == InitMask /\ [][NextMask]_vars

\* ------------------------------------------- the explanation: properties
\* C7: once explain_instance has returned, the explanation holds for every
\* fitted label that label's own intercept, weight list, score and local
\* prediction as the fitter returned them; a later fit overwrites none.
C7_PerLabelResults ==
    pc = "returned" =>
        \A l \in DOMAIN fitted :
            /\ intercept[l] = fitted[l].intercept
            /\ local_exp[l] = fitted[l].exp
            /\ score = fitted[l].score
            /\ local_pred = fitted[l].pred

\* a get_image_and_mask call that produced an image and a mask
Produced(positive_only) ==
    /\ out # NoCall
    /\ out.raised = None
    /\ out.positive_only = positive_only
    /\ out.num_features >= 0

\* the positions of the explanation list the signed branch acts on: the first
\* num_features, less those of absolute weight below min_weight
Remaining ==
    LET exp == local_exp[out.label] IN
    {i \in 1..Len(exp) :
        i <= out.num_features /\ ~(Abs(exp[i][2]) < out.min_weight)}

SignedResult(posChannels, negChannels) ==
    LET exp == local_exp[out.label]
        base == BaseImage(image, out.hide_rest)
        mx == ImageMax(image)
    IN \A p \in Pixels :
          IF \E i \in Remaining : exp[i][1] = segments[p]
          THEN LET i == CHOOSE k \in Remaining : exp[k][1] = segments[p]
                   w == exp[i][2]
               IN /\ w > 0 =>
                       /\ out.mask[p] = 2
                       /\ \E c \in posChannels :
                             out.temp[p] = [image[p] EXCEPT ![c] = mx]
                  /\ w < 0 =>
                       /\ out.mask[p] = 1
                       /\ \E c \in negChannels :
                             out.temp[p] = [image[p] EXCEPT ![c] = mx]
          ELSE /\ out.mask[p] = 0
               /\ out.temp[p] = base[p]

\* C8 as stated: with positive_only=False the first num_features entries
\* are walked, those of absolute weight below min_weight skipped, and each
\* remaining superpixel gets mask 2 and its red channel (index 0) saturated
\* to the image maximum for a positive weight, mask 1 and another channel
\* saturated for a negative weight.
C8_RedForPositive ==
    Produced(FALSE) => SignedResult({0}, {1, 2})

\* C8 amended: the same, but the saturated channel is the green one (index 1)
\* for a positive weight and the red one (index 0) for a negative weight.
C8_GreenForPositive ==
    Produced(FALSE) => SignedResult({1}, {0})

C8_Witness ==
    /\ Produced(FALSE)
    /\ out.min_weight = 2
    /\ \E p, q \in Pixels : out.mask[p] = 2 /\ out.mask[q] = 1
    /\ \A p \in Pixels : image[p][0] # ImageMax(image)

\* C9: with positive_only=True and num_features >= 0 at most num_features
\* superpixels are marked 1, they are those of the first entries, in list
\* order, whose weight is positive and strictly above min_weight, and every
\* other mask cell is 0.
C9_PositiveOnly ==
    Produced(TRUE) =>
        LET exp == local_exp[out.label]
            sel == {i \in 1..Len(exp) :
                       exp[i][2] > 0 /\ exp[i][2] > out.min_weight}
            chosen == {i \in sel :
                          Cardinality({k \in sel : k <= i}) <= out.num_features}
            marked == {exp[i][1] : i \in chosen}
        IN /\ Cardinality(marked) <= out.num_features
           /\ Cardinality({segments[p] : p \in {q \in Pixels : out.mask[q] # 0}})
                 <= out.num_features
           /\ \A p \in Pixels :
                 out.mask[p] = IF segments[p] \in marked THEN 1 ELSE 0

C9_Witness ==
    /\ Produced(TRUE)
    /\ out.num_features = 1
    /\ out.min_weight = 0
    /\ LET exp == local_exp[out.label] IN
          /\ Len(exp) = 2
          /\ exp[1][2] = 1
          /\ exp[2][2] = 2
    /\ \E p, q \in Pixels : out.mask[p] = 1 /\ out.mask[q] = 0

\* the labels explain_instance was asked to fit
HighestProbability(S, k) ==
    /\ Cardinality(S) = (IF k < Cardinality(Classes) THEN k
                         ELSE Cardinality(Classes))
    /\ \A l \in S : \A m \in Classes \ S : labels[1][l] >= labels[1][m]

\* C10: a get_image_and_mask call for a label that was never fit raises the
\* missing-label error, produces no image and no mask and leaves the stored
\* image, segments, intercepts and weight lists as they were; a call for a
\* fitted label (an explicit label, or one of the top_labels labels of
\* highest probability in prediction row 0) does not raise it.
C10_MissingLabel ==
    [][(pc = "returned" /\ out = NoCall) =>
          /\ UNCHANGED <<image, segments, intercept, local_exp>>
          /\ out'.label \notin DOMAIN local_exp =>
                /\ out'.raised = "KeyError"
                /\ out'.temp = None
                /\ out'.mask = None
          /\ top_labels # 0 => HighestProbability(Range(top), top_labels)
          /\ out'.label \in Range(top) => out'.raised = None]_vars

C10_Witness ==
    /\ pc = "returned"
    /\ top_labels = 2
    /\ out # NoCall
    /\ out.raised = "KeyError"
    /\ Cardinality(DOMAIN local_exp) = 2
====
